---- MODULE Spec2Model ----
(***************************************************************************)
(* gl::load_shaders (vita3k/glutil/src/shader.cpp) as a state machine.     *)
(*                                                                         *)
(* The state is the GL context (shader and program objects by name), the   *)
(* asset store, the locals of the call in progress, the trace of the       *)
(* driver and collaborator calls the call has made (each entry carries the *)
(* source line that makes it), the messages the call handed to LOG_ERROR,  *)
(* and the wrappers the caller holds.                                      *)
(***************************************************************************)
EXTENDS Integers, Sequences, FiniteSets, TLC

\* ---------------------------------------------------------------- bounds
MaxCalls == 2        \* calls of load_shaders in one behaviour

\* Every call allocates at most three names (two shaders, one program).
Names == 1..(3 * MaxCalls)
None == 0

Paths == {"a.glsl", "b.glsl"}

\* What an asset may hold: nothing (missing or empty), or some source text.
Assets == {<<>>, <<"x">>}

\* What the driver may leave in an info log.
InfoLogs == {<<>>, <<"e">>}

\* The two preambles of the #ifdef ANDROID at lines 40-44; the build picks one.
GlVersions == {"#version 300 es\nprecision highp float;\n", "#version 410 core\n"}

VARIABLES
    shaders,            \* GL context: shader name -> [type, source, compiled, log, flagged]
    programs,           \* GL context: program name -> [attached, linked, log]
    assets,             \* asset store: path -> bytes
    gl_version,         \* the preamble the build selected
    pc,                 \* position of the call in progress
    vertex_file_path, fragment_file_path,
    vs, fs, vs_code, fs_code, result, info_log_length, program,
    ret,                \* the name the returned wrapper holds, None when empty
    calls,              \* trace of the current call: <<function, object, value, line>>;
                        \* for glCompileShader and glLinkProgram the value is the
                        \* info log the driver produced
    logs,               \* LOG_ERROR messages of the current call
    held,               \* names held by the wrappers the caller still owns
    ncalls

vars == <<shaders, programs, assets, gl_version, pc, vertex_file_path,
          fragment_file_path, vs, fs, vs_code, fs_code, result, info_log_length,
          program, ret, calls, logs, held, ncalls>>

ctx == <<shaders, programs>>
env == <<assets, gl_version, held, ncalls>>
params == <<vertex_file_path, fragment_file_path>>
locals == <<vs, fs, vs_code, fs_code, result, info_log_length, program>>

\* ------------------------------------------------------------ GL driver
Min(a, b) == IF a < b THEN a ELSE b

Without(f, n) == [k \in DOMAIN f \ {n} |-> f[k]]

FreeNames == Names \ (DOMAIN shaders \cup DOMAIN programs)

\* glCreateShader and glCreateProgram hand out a name that is not in use; which
\* one is the driver's choice. The model takes the smallest, the choice that
\* reuses a deleted name soonest.
FreshName == CHOOSE n \in FreeNames : \A m \in FreeNames : n <= m

NewShader(type) ==
    [type |-> type, source |-> <<>>, compiled |-> FALSE, log |-> <<>>, flagged |-> FALSE]

NewProgram == [attached |-> {}, linked |-> FALSE, log |-> <<>>]

IsAttached(pr, s) == \E p \in DOMAIN pr : s \in pr[p].attached

\* A shader that is attached is only flagged; it goes when it is detached.
glDeleteShader(sh, pr, s) ==
    IF s \notin DOMAIN sh THEN sh
    ELSE IF IsAttached(pr, s) THEN [sh EXCEPT ![s].flagged = TRUE]
    ELSE Without(sh, s)

glDetachShader(sh, pr, p, s) ==
    IF p \notin DOMAIN pr \/ s \notin pr[p].attached
    THEN [sh |-> sh, pr |-> pr]
    ELSE LET pr2 == [pr EXCEPT ![p].attached = @ \ {s}]
         IN [sh |-> IF sh[s].flagged /\ ~IsAttached(pr2, s) THEN Without(sh, s) ELSE sh,
             pr |-> pr2]

glDeleteProgram(sh, pr, p) ==
    IF p \notin DOMAIN pr THEN [sh |-> sh, pr |-> pr]
    ELSE LET pr2 == Without(pr, p)
         IN [sh |-> [s \in {t \in DOMAIN sh : ~(sh[t].flagged /\ ~IsAttached(pr2, t))} |-> sh[s]],
             pr |-> pr2]

\* GL_INFO_LOG_LENGTH counts the terminating null; 0 when there is no log.
InfoLogLength(log) == IF log = <<>> THEN 0 ELSE Len(log) + 1

\* glGet*InfoLog(obj, maxLength, NULL, buf) into a zeroed buffer, read as a C string.
GetInfoLog(log, maxLength) ==
    IF maxLength <= 0 THEN <<>> ELSE SubSeq(log, 1, Min(Len(log), maxLength - 1))

\* ------------------------------------------------------- collaborators
read_asset_raw(path) == assets[path]

Call4(fn, obj, val, line) == <<fn, obj, val, line>>

Logged(fmt, arg) == Append(logs, [fmt |-> fmt, arg |-> arg])

\* ----------------------------------------------------------------- Init
Init ==
    /\ shaders = <<>>
    /\ programs = <<>>
    /\ assets \in [Paths -> Assets]
    /\ gl_version \in GlVersions
    /\ pc = "idle"
    /\ vertex_file_path = "a.glsl"
    /\ fragment_file_path = "a.glsl"
    /\ vs = None /\ fs = None
    /\ vs_code = <<>> /\ fs_code = <<>>
    /\ result = FALSE
    /\ info_log_length = 0
    /\ program = None
    /\ ret = None
    /\ calls = <<>>
    /\ logs = <<>>
    /\ held = <<>>
    /\ ncalls = 0

\* -------------------------------------------------------- load_shaders
\* The caller enters load_shaders(vertex_file_path, fragment_file_path).
Enter ==
    /\ pc \in {"idle", "done"}
    /\ ncalls < MaxCalls
    /\ \E vp \in Paths, fp \in Paths :
          /\ vertex_file_path' = vp
          /\ fragment_file_path' = fp
    /\ pc' = "create_vs"
    /\ vs' = None /\ fs' = None
    /\ vs_code' = <<>> /\ fs_code' = <<>>
    /\ result' = FALSE
    /\ info_log_length' = 0
    /\ program' = None
    /\ ret' = None
    /\ calls' = <<>>
    /\ logs' = <<>>
    /\ ncalls' = ncalls + 1
    /\ UNCHANGED <<shaders, programs, assets, gl_version, held>>

\* line 37
CreateVS ==
    /\ pc = "create_vs"
    /\ \E n \in {FreshName} :
          /\ vs' = n
          /\ shaders' = (n :> NewShader("GL_VERTEX_SHADER")) @@ shaders
          /\ calls' = Append(calls, Call4("glCreateShader", n, "GL_VERTEX_SHADER", 37))
    /\ pc' = "create_fs"
    /\ UNCHANGED <<programs, env, params, fs, vs_code, fs_code, result,
                   info_log_length, program, ret, logs>>

\* line 38
CreateFS ==
    /\ pc = "create_fs"
    /\ \E n \in {FreshName} :
          /\ fs' = n
          /\ shaders' = (n :> NewShader("GL_FRAGMENT_SHADER")) @@ shaders
          /\ calls' = Append(calls, Call4("glCreateShader", n, "GL_FRAGMENT_SHADER", 38))
    /\ pc' = "read_vs"
    /\ UNCHANGED <<programs, env, params, vs, vs_code, fs_code, result,
                   info_log_length, program, ret, logs>>

\* lines 47-52
ReadVS ==
    /\ pc = "read_vs"
    /\ vs_code' = read_asset_raw(vertex_file_path)
    /\ calls' = Append(calls, Call4("read_asset_raw", vertex_file_path,
                                    read_asset_raw(vertex_file_path), 49))
    /\ pc' = "read_fs"
    /\ UNCHANGED <<ctx, env, params, vs, fs, fs_code, result, info_log_length,
                   program, ret, logs>>

\* lines 54-59
ReadFS ==
    /\ pc = "read_fs"
    /\ fs_code' = read_asset_raw(fragment_file_path)
    /\ calls' = Append(calls, Call4("read_asset_raw", fragment_file_path,
                                    read_asset_raw(fragment_file_path), 56))
    /\ pc' = "check_sources"
    /\ UNCHANGED <<ctx, env, params, vs, fs, vs_code, result, info_log_length,
                   program, ret, logs>>

\* Mutant of SourcesMissing: only the vertex source is looked at.
SourcesMissing_VertexOnly == vs_code = <<>>

\* line 61: either source read as zero bytes
SourcesMissing == vs_code = <<>> \/ fs_code = <<>>

\* lines 61-64
CheckSources ==
    /\ pc = "check_sources"
    /\ IF SourcesMissing
       THEN /\ logs' = Logged("Couldn't open shader: {}", vertex_file_path)
            /\ ret' = None
            /\ pc' = "done"
       ELSE /\ pc' = "compile_vs"
            /\ UNCHANGED <<logs, ret>>
    /\ UNCHANGED <<ctx, env, params, locals, calls>>

\* glShaderSource, glCompileShader and the two glGetShaderiv queries on shader s;
\* the driver decides the compile status and the info log.
CompileStage(s, code, line) ==
    \E ok \in BOOLEAN, lg \in InfoLogs :
       /\ shaders' = [shaders EXCEPT ![s] = [@ EXCEPT !.source = <<gl_version>> \o code,
                                                       !.compiled = ok,
                                                       !.log = lg]]
       /\ result' = ok
       /\ info_log_length' = InfoLogLength(lg)
       /\ calls' = calls \o << Call4("glShaderSource", s, <<gl_version>> \o code, line),
                               Call4("glCompileShader", s, lg, line + 1),
                               Call4("GL_COMPILE_STATUS", s, ok, line + 4),
                               Call4("GL_INFO_LOG_LENGTH", s, InfoLogLength(lg), line + 5) >>

\* if (!result) { glGetShaderInfoLog(s, ...); LOG_ERROR(fmt, message); return {}; }
CheckStage(s, fmt, line, nextpc) ==
    IF ~result
    THEN LET message == GetInfoLog(shaders[s].log, info_log_length)
         IN /\ calls' = Append(calls, Call4("glGetShaderInfoLog", s, message, line))
            /\ logs' = Logged(fmt, message)
            /\ ret' = None
            /\ pc' = "done"
    ELSE /\ pc' = nextpc
         /\ UNCHANGED <<calls, logs, ret>>

\* lines 70-76
CompileVS ==
    /\ pc = "compile_vs"
    /\ CompileStage(vs, vs_code, 71)
    /\ pc' = "check_vs"
    /\ UNCHANGED <<programs, env, params, vs, fs, vs_code, fs_code, program, ret, logs>>

\* Mutant of CheckVS: the diagnostic is fetched from the fragment shader.
CheckVS_WrongObject ==
    /\ pc = "check_vs"
    /\ CheckStage(fs, "Error compiling vertex shader: {}\n", 79, "compile_fs")
    /\ UNCHANGED <<ctx, env, params, locals>>

\* Mutant of CheckVS: the failure is logged but the return is missing.
CheckVS_FallThrough ==
    /\ pc = "check_vs"
    /\ IF ~result
       THEN LET message == GetInfoLog(shaders[vs].log, info_log_length)
            IN /\ calls' = Append(calls, Call4("glGetShaderInfoLog", vs, message, 79))
               /\ logs' = Logged("Error compiling vertex shader: {}\n", message)
       ELSE UNCHANGED <<calls, logs>>
    /\ pc' = "compile_fs"
    /\ UNCHANGED <<ctx, env, params, locals, ret>>

\* lines 77-82
CheckVS ==
    /\ pc = "check_vs"
    /\ CheckStage(vs, "Error compiling vertex shader: {}\n", 79, "compile_fs")
    /\ UNCHANGED <<ctx, env, params, locals>>

\* lines 85-91
CompileFS ==
    /\ pc = "compile_fs"
    /\ CompileStage(fs, fs_code, 86)
    /\ pc' = "check_fs"
    /\ UNCHANGED <<programs, env, params, vs, fs, vs_code, fs_code, program, ret, logs>>

\* lines 92-97
CheckFS ==
    /\ pc = "check_fs"
    /\ CheckStage(fs, "Error compiling fragment shader: {}\n", 94, "create_program")
    /\ UNCHANGED <<ctx, env, params, locals>>

\* line 100
CreateProgram ==
    /\ pc = "create_program"
    /\ \E n \in {FreshName} :
          /\ program' = n
          /\ programs' = (n :> NewProgram) @@ programs
          /\ calls' = Append(calls, Call4("glCreateProgram", n, None, 100))
    /\ pc' = "attach"
    /\ UNCHANGED <<shaders, env, params, vs, fs, vs_code, fs_code, result,
                   info_log_length, ret, logs>>

glAttachShader(sh, pr, p, s) ==
    IF p \in DOMAIN pr /\ s \in DOMAIN sh THEN [pr EXCEPT ![p].attached = @ \cup {s}] ELSE pr

\* lines 101-102
AttachShaders ==
    /\ pc = "attach"
    /\ programs' = glAttachShader(shaders, glAttachShader(shaders, programs, program, vs),
                                  program, fs)
    /\ calls' = calls \o << Call4("glAttachShader", program, vs, 101),
                            Call4("glAttachShader", program, fs, 102) >>
    /\ pc' = "link"
    /\ UNCHANGED <<shaders, env, params, locals, ret, logs>>

\* lines 103-107: the driver decides the link status and the info log; a program
\* with a stage that did not compile never links.
LinkProgram ==
    /\ pc = "link"
    /\ \E ok \in BOOLEAN, lg \in InfoLogs :
          /\ ok => \A s \in programs[program].attached : shaders[s].compiled
          /\ programs' = [programs EXCEPT ![program] = [@ EXCEPT !.linked = ok, !.log = lg]]
          /\ result' = ok
          /\ info_log_length' = InfoLogLength(lg)
          /\ calls' = calls \o << Call4("glLinkProgram", program, lg, 103),
                                  Call4("GL_LINK_STATUS", program, ok, 106),
                                  Call4("GL_INFO_LOG_LENGTH", program, InfoLogLength(lg), 107) >>
    /\ pc' = "check_link"
    /\ UNCHANGED <<shaders, env, params, vs, fs, vs_code, fs_code, program, ret, logs>>

\* Mutant of CheckLink: the link status is not looked at.
CheckLink_NoCheck ==
    /\ pc = "check_link"
    /\ pc' = "detach"
    /\ UNCHANGED <<ctx, env, params, locals, calls, logs, ret>>

\* Mutant of CheckLink: the failure path detaches and deletes the two shaders.
CheckLink_FreesShaders ==
    /\ pc = "check_link"
    /\ IF ~result
       THEN LET message == GetInfoLog(programs[program].log, info_log_length)
                d1 == glDetachShader(shaders, programs, program, vs)
                d2 == glDetachShader(d1.sh, d1.pr, program, fs)
            IN /\ calls' = calls \o << Call4("glGetProgramInfoLog", program, message, 110),
                                       Call4("glDetachShader", program, vs, 111),
                                       Call4("glDetachShader", program, fs, 111),
                                       Call4("glDeleteShader", vs, None, 111),
                                       Call4("glDeleteShader", fs, None, 111) >>
               /\ shaders' = glDeleteShader(glDeleteShader(d2.sh, d2.pr, vs), d2.pr, fs)
               /\ programs' = d2.pr
               /\ logs' = Logged("Error linking shader program: {}\n", message)
               /\ ret' = None
               /\ pc' = "done"
       ELSE /\ pc' = "detach"
            /\ UNCHANGED <<ctx, calls, logs, ret>>
    /\ UNCHANGED <<env, params, locals>>

\* Mutant of CheckLink: the failure path deletes the program it created.
CheckLink_DeletesProgram ==
    /\ pc = "check_link"
    /\ IF ~result
       THEN LET message == GetInfoLog(programs[program].log, info_log_length)
                d == glDeleteProgram(shaders, programs, program)
            IN /\ calls' = calls \o << Call4("glGetProgramInfoLog", program, message, 110),
                                       Call4("glDeleteProgram", program, None, 111) >>
               /\ shaders' = d.sh
               /\ programs' = d.pr
               /\ logs' = Logged("Error linking shader program: {}\n", message)
               /\ ret' = None
               /\ pc' = "done"
       ELSE /\ pc' = "detach"
            /\ UNCHANGED <<ctx, calls, logs, ret>>
    /\ UNCHANGED <<env, params, locals>>

\* lines 108-113
CheckLink ==
    /\ pc = "check_link"
    /\ IF ~result
       THEN LET message == GetInfoLog(programs[program].log, info_log_length)
            IN /\ calls' = Append(calls, Call4("glGetProgramInfoLog", program, message, 110))
               /\ logs' = Logged("Error linking shader program: {}\n", message)
               /\ ret' = None
               /\ pc' = "done"
       ELSE /\ pc' = "detach"
            /\ UNCHANGED <<calls, logs, ret>>
    /\ UNCHANGED <<ctx, env, params, locals>>

\* lines 115-116
DetachShaders ==
    /\ pc = "detach"
    /\ LET d1 == glDetachShader(shaders, programs, program, vs)
           d2 == glDetachShader(d1.sh, d1.pr, program, fs)
       IN /\ shaders' = d2.sh
          /\ programs' = d2.pr
    /\ calls' = calls \o << Call4("glDetachShader", program, vs, 115),
                            Call4("glDetachShader", program, fs, 116) >>
    /\ pc' = "delete"
    /\ UNCHANGED <<env, params, locals, ret, logs>>

\* Mutant of DeleteShaders: the fragment shader is not deleted.
DeleteShaders_VertexOnly ==
    /\ pc = "delete"
    /\ shaders' = glDeleteShader(shaders, programs, vs)
    /\ calls' = Append(calls, Call4("glDeleteShader", vs, None, 118))
    /\ pc' = "wrap"
    /\ UNCHANGED <<programs, env, params, locals, ret, logs>>

\* lines 118-119
DeleteShaders ==
    /\ pc = "delete"
    /\ shaders' = glDeleteShader(glDeleteShader(shaders, programs, vs), programs, fs)
    /\ calls' = calls \o << Call4("glDeleteShader", vs, None, 118),
                            Call4("glDeleteShader", fs, None, 119) >>
    /\ pc' = "wrap"
    /\ UNCHANGED <<programs, env, params, locals, ret, logs>>

\* GLObject (glutil/object.h): init(name, deleter) reports success or failure.
GLObjectInitResults == BOOLEAN

\* ~GLObject of a wrapper that owns its name calls the deleter on it.
GLObjectDestroy(sh, pr, name, owns) ==
    IF owns THEN glDeleteProgram(sh, pr, name) ELSE [sh |-> sh, pr |-> pr]

\* Mutant of WrapProgram: the wrapper is given the vertex shader's name.
WrapProgram_WrongName ==
    /\ pc = "wrap"
    /\ \E ok \in GLObjectInitResults :
          /\ calls' = Append(calls, Call4("GLObject::init", vs, ok, 122))
          /\ IF ok
             THEN /\ ret' = vs
                  /\ held' = Append(held, vs)
                  /\ UNCHANGED ctx
             ELSE /\ ret' = None
                  /\ \E owns \in BOOLEAN :
                        LET d == GLObjectDestroy(shaders, programs, vs, owns)
                        IN /\ shaders' = d.sh
                           /\ programs' = d.pr
                  /\ UNCHANGED held
    /\ pc' = "done"
    /\ UNCHANGED <<assets, gl_version, ncalls, params, locals, logs>>

\* lines 121-126: on init failure the local wrapper is destroyed and an empty one
\* returned; whether the failed wrapper took the name is GLObject's business.
WrapProgram ==
    /\ pc = "wrap"
    /\ \E ok \in GLObjectInitResults :
          /\ calls' = Append(calls, Call4("GLObject::init", program, ok, 122))
          /\ IF ok
             THEN /\ ret' = program
                  /\ held' = Append(held, program)
                  /\ UNCHANGED ctx
             ELSE /\ ret' = None
                  /\ \E owns \in BOOLEAN :
                        LET d == GLObjectDestroy(shaders, programs, program, owns)
                        IN /\ shaders' = d.sh
                           /\ programs' = d.pr
                  /\ UNCHANGED held
    /\ pc' = "done"
    /\ UNCHANGED <<assets, gl_version, ncalls, params, locals, logs>>

\* The caller lets go of the i-th wrapper it holds: ~GLObject runs glDeleteProgram.
Release ==
    /\ pc \in {"idle", "done"}
    /\ \E i \in 1..Len(held) :
          LET d == GLObjectDestroy(shaders, programs, held[i], TRUE)
          IN /\ shaders' = d.sh
             /\ programs' = d.pr
             /\ held' = SubSeq(held, 1, i - 1) \o SubSeq(held, i + 1, Len(held))
    /\ pc' = "idle"
    /\ UNCHANGED <<assets, gl_version, ncalls, params, locals, ret, calls, logs>>

Next ==
    \/ Enter
    \/ CreateVS
    \/ CreateFS
    \/ ReadVS
    \/ ReadFS
    \/ CheckSources
    \/ CompileVS
    \/ CheckVS
    \/ CompileFS
    \/ CheckFS
    \/ CreateProgram
    \/ AttachShaders
    \/ LinkProgram
    \/ CheckLink
    \/ DetachShaders
    \/ DeleteShaders
    \/ WrapProgram
    \/ Release

Spec == Init /\ [][Next]_vars
\* ------------------------------------------------- reading the trace
Returned == pc = "done"

Made(entry) == \E i \in 1..Len(calls) : calls[i] = entry

Invoked(fn) == \E i \in 1..Len(calls) : calls[i][1] = fn

\* entry a was made, and entry b after it
Ordered(a, b) == \E i, j \in 1..Len(calls) : i < j /\ calls[i] = a /\ calls[j] = b

ReadEmpty == vs_code = <<>> \/ fs_code = <<>>

VertexCompiled(ok) == Made(<<"GL_COMPILE_STATUS", vs, ok, 75>>)
FragmentCompiled(ok) == Made(<<"GL_COMPILE_STATUS", fs, ok, 90>>)
Linked(ok) == Made(<<"GL_LINK_STATUS", program, ok, 106>>)
InitReported(ok) == Made(<<"GLObject::init", program, ok, 122>>)

\* the names the current call got from glCreateShader and glCreateProgram
CreatedShaders == {calls[i][2] : i \in {k \in 1..Len(calls) : calls[k][1] = "glCreateShader"}}
CreatedPrograms == {calls[i][2] : i \in {k \in 1..Len(calls) : calls[k][1] = "glCreateProgram"}}

Allocated == DOMAIN shaders \cup DOMAIN programs

HeldNames == {held[i] : i \in 1..Len(held)}

\* ----------------------------------------------------------------- C1
\* C1: a non-empty returned wrapper wraps the program this call created, that
\* program is linked, and both stages reported a successful compile before the
\* link.
C1_NonEmptyWrapsLinkedProgram ==
    (Returned /\ ret # None) =>
        /\ ret = program
        /\ Made(<<"glCreateProgram", ret, None, 100>>)
        /\ ret \in DOMAIN programs
        /\ programs[ret].linked
        /\ Linked(TRUE)
        /\ \E lg \in InfoLogs :
              /\ Ordered(<<"GL_COMPILE_STATUS", vs, TRUE, 75>>, <<"glLinkProgram", ret, lg, 103>>)
              /\ Ordered(<<"GL_COMPILE_STATUS", fs, TRUE, 90>>, <<"glLinkProgram", ret, lg, 103>>)

C1_Witness == Returned /\ ret # None /\ ret \in DOMAIN programs /\ programs[ret].linked

\* ----------------------------------------------------------------- C2
\* C2: when either asset reads as zero bytes the call logs one error, returns
\* empty, and has created no shader object and no program.
C2_MissingAssetCreatesNothing ==
    (Returned /\ ReadEmpty) =>
        /\ Len(logs) = 1
        /\ ret = None
        /\ ~Invoked("glCreateShader")
        /\ ~Invoked("glCreateProgram")

\* ----------------------------------------------------------------- C3
\* C3: at every return, each shader object the call created has been deleted.
C3_ShadersDeletedAtReturn ==
    Returned =>
        \A s \in CreatedShaders :
            /\ Made(<<"glDeleteShader", s, None, 118>>) \/ Made(<<"glDeleteShader", s, None, 119>>)
            /\ s \notin DOMAIN shaders

\* ----------------------------------------------------------------- C4
\* C4: on a non-empty return both shaders were detached and then deleted, both
\* after the link status check, and of the objects the call created only the
\* program is still allocated.
C4_SuccessLeavesOnlyProgram ==
    (Returned /\ ret # None) =>
        /\ Ordered(<<"GL_LINK_STATUS", program, TRUE, 106>>, <<"glDetachShader", program, vs, 115>>)
        /\ Ordered(<<"GL_LINK_STATUS", program, TRUE, 106>>, <<"glDetachShader", program, fs, 116>>)
        /\ Ordered(<<"glDetachShader", program, vs, 115>>, <<"glDeleteShader", vs, None, 118>>)
        /\ Ordered(<<"glDetachShader", program, fs, 116>>, <<"glDeleteShader", fs, None, 119>>)
        /\ CreatedShaders = {vs, fs}
        /\ CreatedShaders \cap DOMAIN shaders = {}
        /\ (CreatedShaders \cup CreatedPrograms) \cap Allocated = {ret}
        /\ programs[ret].attached = {}

C4_Witness ==
    /\ Returned /\ ret # None
    /\ Made(<<"glDeleteShader", vs, None, 118>>)
    /\ Made(<<"glDeleteShader", fs, None, 119>>)
    /\ vs \notin DOMAIN shaders /\ fs \notin DOMAIN shaders

\* ----------------------------------------------------------------- C5
\* C5: when either asset reads as zero bytes, no compiler or linker entry point
\* is invoked in that call, and the call returns empty.
C5_MissingAssetNoCompilerCall ==
    ReadEmpty =>
        /\ ~Invoked("glShaderSource")
        /\ ~Invoked("glCompileShader")
        /\ ~Invoked("glCreateProgram")
        /\ ~Invoked("glAttachShader")
        /\ ~Invoked("glLinkProgram")
        /\ Returned => ret = None

C5_Witness == Returned /\ vs_code # <<>> /\ fs_code = <<>> /\ ret = None

\* ----------------------------------------------------------------- C6
\* C6: a missing asset, a compile failure and a link failure each end in an
\* empty return with exactly one logged error; for a compile or link failure the
\* message carries the info log the driver produced for the failing object,
\* fetched from that object.
C6_OneErrorWithDiagnostic ==
    Returned =>
        /\ ReadEmpty =>
              /\ ret = None
              /\ Len(logs) = 1
              /\ logs[1] = [fmt |-> "Couldn't open shader: {}", arg |-> vertex_file_path]
        /\ VertexCompiled(FALSE) =>
              /\ ret = None
              /\ Len(logs) = 1
              /\ logs[1].fmt = "Error compiling vertex shader: {}\n"
              /\ Made(<<"glGetShaderInfoLog", vs, logs[1].arg, 79>>)
              /\ Made(<<"glCompileShader", vs, logs[1].arg, 72>>)
        /\ FragmentCompiled(FALSE) =>
              /\ ret = None
              /\ Len(logs) = 1
              /\ logs[1].fmt = "Error compiling fragment shader: {}\n"
              /\ Made(<<"glGetShaderInfoLog", fs, logs[1].arg, 94>>)
              /\ Made(<<"glCompileShader", fs, logs[1].arg, 87>>)
        /\ Linked(FALSE) =>
              /\ ret = None
              /\ Len(logs) = 1
              /\ logs[1].fmt = "Error linking shader program: {}\n"
              /\ Made(<<"glGetProgramInfoLog", program, logs[1].arg, 110>>)
              /\ Made(<<"glLinkProgram", program, logs[1].arg, 103>>)

C6_Witness ==
    /\ Returned /\ VertexCompiled(FALSE)
    /\ Len(logs) = 1 /\ logs[1].arg = <<"e">>

\* ----------------------------------------------------------------- C7
HeldDistinct ==
    /\ \A i, j \in 1..Len(held) : i # j => held[i] # held[j]
    /\ \A i \in 1..Len(held) : held[i] \in DOMAIN programs /\ programs[held[i]].linked

\* C7: the wrappers held at one time hold distinct names, each a linked program
\* its own call got from glCreateProgram; releasing one wrapper deletes its
\* program and leaves every other held program allocated and unchanged.
C7_IndependentPrograms ==
    [][ /\ HeldDistinct'
        /\ Len(held') > Len(held) =>
              /\ held' = Append(held, program)
              /\ Made(<<"glCreateProgram", program, None, 100>>)
        /\ Len(held') < Len(held) =>
              /\ \A n \in HeldNames \ HeldNames' : n \notin DOMAIN programs'
              /\ \A n \in HeldNames' : n \in DOMAIN programs' /\ programs'[n] = programs[n]
      ]_vars

C7_Witness ==
    /\ pc = "idle" /\ ncalls = 2 /\ InitReported(TRUE)
    /\ Len(held) = 1 /\ held[1] \in DOMAIN programs
    /\ Cardinality(DOMAIN programs) = 1

\* ----------------------------------------------------------------- C8
\* C8: after a vertex compile failure, a fragment compile failure or a link
\* failure, both shader objects of the call are still allocated at return and
\* glDeleteShader was invoked on neither.
C8_FailureLeavesShaders ==
    (Returned /\ (VertexCompiled(FALSE) \/ FragmentCompiled(FALSE) \/ Linked(FALSE))) =>
        /\ ret = None
        /\ vs \in DOMAIN shaders /\ ~shaders[vs].flagged
        /\ fs \in DOMAIN shaders /\ ~shaders[fs].flagged
        /\ ~Invoked("glDeleteShader")

C8_Witness ==
    /\ Returned /\ Linked(FALSE)
    /\ vs \in DOMAIN shaders /\ fs \in DOMAIN shaders

\* ----------------------------------------------------------------- C9
\* The stage a source line belongs to: 1 read vertex asset, 2 read fragment
\* asset, 4 vertex compile, 5 fragment compile, 6 program creation and link,
\* 7 shader detach and delete, 8 wrap (3, the non-empty check, makes no call;
\* 0 is the creation of the two shader objects).
Stage(line) ==
    IF line <= 38 THEN 0
    ELSE IF line <= 52 THEN 1
    ELSE IF line <= 59 THEN 2
    ELSE IF line <= 82 THEN 4
    ELSE IF line <= 97 THEN 5
    ELSE IF line <= 113 THEN 6
    ELSE IF line <= 119 THEN 7
    ELSE 8

StageEntered(k) == \E i \in 1..Len(calls) : Stage(calls[i][4]) >= k

\* C9: the calls of one load_shaders run follow the source order, a stage is
\* entered only when every earlier one succeeded, and nothing runs after a
\* failure.
C9_LinearStages ==
    /\ \A i, j \in 1..Len(calls) : i < j => calls[i][4] < calls[j][4]
    /\ StageEntered(2) => Made(<<"read_asset_raw", vertex_file_path, vs_code, 49>>)
    /\ StageEntered(4) => ~ReadEmpty /\ Made(<<"read_asset_raw", fragment_file_path, fs_code, 56>>)
    /\ StageEntered(5) => VertexCompiled(TRUE)
    /\ StageEntered(6) => FragmentCompiled(TRUE)
    /\ StageEntered(7) => Linked(TRUE)
    /\ StageEntered(8) => Made(<<"glDeleteShader", fs, None, 119>>)
    /\ VertexCompiled(FALSE) => ~StageEntered(5)
    /\ FragmentCompiled(FALSE) => ~StageEntered(6)
    /\ Linked(FALSE) => ~StageEntered(7)
    /\ logs # <<>> => pc \in {"done", "idle"} /\ ret = None

C9_Witness ==
    /\ Returned /\ VertexCompiled(TRUE) /\ FragmentCompiled(FALSE)
    /\ ~Invoked("glCreateProgram")

\* ---------------------------------------------------------------- C10
\* C10: an empty return after glCreateProgram comes from a link failure or an
\* init failure; load_shaders has not invoked glDeleteProgram and no wrapper
\* holds the program; on the init-failure path the shaders are gone and nothing
\* was logged.
C10_EmptyAfterCreateProgram ==
    (Returned /\ ret = None /\ Invoked("glCreateProgram")) =>
        /\ Linked(FALSE) \/ InitReported(FALSE)
        /\ ~Invoked("glDeleteProgram")
        /\ program \notin HeldNames
        /\ Linked(FALSE) => program \in DOMAIN programs
        /\ InitReported(FALSE) =>
              /\ vs \notin DOMAIN shaders
              /\ fs \notin DOMAIN shaders
              /\ logs = <<>>

C10_Witness == Returned /\ ret = None /\ InitReported(FALSE) /\ logs = <<>>
====
